---- MODULE Spec2Model ----
(***************************************************************************)
(* A model of pangeo_forge/recipe/recipe.py: the chunk planner of          *)
(* FileSequenceRecipe, the input cache of InputCachingMixin, the target    *)
(* initialisation of FileSequenceRecipe.prepare and the region write of    *)
(* ZarrWriterMixin.store_chunk.                                            *)
(*                                                                         *)
(* The source is a design sketch: several names it uses are misspelt or    *)
(* never defined.  The model follows the control flow and the arithmetic   *)
(* exactly as written and reads each such name as the definition it        *)
(* evidently refers to:                                                    *)
(*   filenames_for_chunk (l.172)  -> inputs_for_chunk                      *)
(*   get_write_region    (l.136)  -> region_for_chunk                      *)
(*   input_chache        (l.95)   -> input_cache                           *)
(*   path                (l.213)  -> target_store                          *)
(*   shape[axis] = N     (l.228)  -> the total held by the dict N          *)
(* xarray, zarr and fsspec are libraries: their calls are modelled by      *)
(* their documented contracts (to_zarr creates with mode "w-", a region    *)
(* write needs existing arrays that contain the region, resize keeps the   *)
(* data that stays in bounds).                                             *)
(*                                                                         *)
(* Specifications:                                                         *)
(*   Spec            calls on one recipe, each taken whole, in any order   *)
(*   SpecPlan        the planning methods alone, over larger plans         *)
(*   SpecCache       cache_input and input_opener, each taken whole        *)
(*   SpecManual      the documented manual execution, run as a script      *)
(*   SpecPrepare     several workers inside prepare, step by step          *)
(*   SpecStore       one store_chunk per chunk key at once, step by step   *)
(*   SpecCacheSteps  cache_input step by step, with readers in between     *)
(***************************************************************************)
EXTENDS Integers, Sequences, FiniteSets, TLC

\* ---- bounds of the model ----
MaxPlanFiles == 10
MaxPlanFilesPerChunk == 4
MaxPlanItemsPerFile == 3
MaxFiles == 2
MaxFilesPerChunk == 2
MaxItemsPerFile == 2
NumWorkers == 2
MaxStoreFiles == 3

VARIABLES
    file_urls,        \* FileSequenceRecipe.file_urls: the ordered input identifiers
    files_per_chunk,  \* FileSequenceRecipe.files_per_chunk
    nitems_per_file,  \* FileSequenceRecipe.nitems_per_file
    require_cache,    \* InputCachingMixin.require_cache
    chunks_files,     \* FileSequenceRecipe._chunks_files: the dict, as its (key, value) pairs in insertion order
    actual_nitems,    \* items along the sequence dimension that each source file really holds
    input_cache,      \* InputCachingMixin.input_cache: per input, whether an entry exists and its payload
    target,           \* the target store: existence, the shape of each variable, the data along the sequence dimension
    ret,              \* the last call made on the recipe and how it ended
    hist,             \* the target as it was before the last interrupted store_chunk
    log,              \* which calls have returned normally so far: a prepare, and store_chunk per chunk key
    procs             \* the calls that concurrent workers are in the middle of, per worker

vars == <<file_urls, files_per_chunk, nitems_per_file, require_cache, chunks_files,
          actual_nitems, input_cache, target, ret, hist, log, procs>>

config == <<file_urls, files_per_chunk, nitems_per_file, require_cache, chunks_files,
            actual_nitems>>

Min(a, b) == IF a < b THEN a ELSE b

\* ---------------------------------------------------------------------------
\* ChunkPlanner: FileSequenceRecipe
\* ---------------------------------------------------------------------------

\* ..utils.chunked_iterable(iterable, size): successive tuples of `size` items, the last one shorter
RECURSIVE chunked_iterable(_, _)
chunked_iterable(iterable, size) ==
    IF iterable = <<>> THEN <<>>
    ELSE LET n == Min(size, Len(iterable))
         IN  <<SubSeq(iterable, 1, n)>> \o
             chunked_iterable(SubSeq(iterable, n + 1, Len(iterable)), size)

\* enumerate(seq): the pairs (0, seq[0]), (1, seq[1]), ...
enumerate(seq) == [i \in 1..Len(seq) |-> <<i - 1, seq[i]>>]

enumerate_from_one(seq) == [i \in 1..Len(seq) |-> <<i, seq[i]>>]

post_init_off_by_one(urls, per_chunk) == enumerate_from_one(chunked_iterable(urls, per_chunk))

\* __post_init__: {k: v for k, v in enumerate(chunked_iterable(file_urls, files_per_chunk))}
post_init(urls, per_chunk) == enumerate(chunked_iterable(urls, per_chunk))

\* k in self._chunks_files
has_chunk(chunk_key) == \E i \in 1..Len(chunks_files) : chunks_files[i][1] = chunk_key

inputs_for_chunk_list_index(chunk_key) ==
    LET n == Len(chunks_files)
    IN  IF -n <= chunk_key /\ chunk_key < n
        THEN [status |-> "ok", value |-> chunks_files[(chunk_key % n) + 1][2]]
        ELSE [status |-> "IndexError", value |-> <<>>]

\* self._chunks_files[chunk_key]; a missing key raises KeyError
inputs_for_chunk(chunk_key) ==
    IF has_chunk(chunk_key)
    THEN [status |-> "ok",
          value  |-> chunks_files[CHOOSE i \in 1..Len(chunks_files) :
                                      chunks_files[i][1] = chunk_key][2]]
    ELSE [status |-> "KeyError", value |-> <<>>]

nitems_for_chunk_full_chunk(chunk_key) ==
    LET inputs == inputs_for_chunk(chunk_key)
    IN  IF inputs.status = "ok"
        THEN [status |-> "ok", value |-> nitems_per_file * files_per_chunk]
        ELSE [status |-> inputs.status, value |-> 0]

\* nitems_per_file * len(inputs_for_chunk(chunk_key))
nitems_for_chunk(chunk_key) ==
    LET inputs == inputs_for_chunk(chunk_key)
    IN  IF inputs.status = "ok"
        THEN [status |-> "ok", value |-> nitems_per_file * Len(inputs.value)]
        ELSE [status |-> inputs.status, value |-> 0]

region_for_chunk_stride_per_file(chunk_key) ==
    LET start  == chunk_key * nitems_per_file
        nitems == nitems_for_chunk(chunk_key)
    IN  IF nitems.status = "ok"
        THEN [status |-> "ok", value |-> [start |-> start, stop |-> start + nitems.value]]
        ELSE [status |-> nitems.status, value |-> [start |-> 0, stop |-> 0]]

\* slice(start, start + nitems_for_chunk(chunk_key)) with start = chunk_key * stride
region_for_chunk(chunk_key) ==
    LET stride == nitems_per_file * files_per_chunk
        start  == chunk_key * stride
        nitems == nitems_for_chunk(chunk_key)
    IN  IF nitems.status = "ok"
        THEN [status |-> "ok", value |-> [start |-> start, stop |-> start + nitems.value]]
        ELSE [status |-> nitems.status, value |-> [start |-> 0, stop |-> 0]]

\* for k in self._chunks_files: yield k   (dict order is insertion order)
iter_chunks == [i \in 1..Len(chunks_files) |-> chunks_files[i][1]]

RECURSIVE sum_nitems(_)
sum_nitems(keys) ==
    IF keys = <<>> THEN 0
    ELSE nitems_for_chunk(Head(keys)).value + sum_nitems(Tail(keys))

\* FileSequenceRecipe.sequence_dim (the field): the name of the growth dimension
sequence_dim == "time"

\* the method sequence_dim(): {sequence_dim: sum([nitems_for_chunk(k) for k in iter_chunks()])}
sequence_dim_size == [d \in {sequence_dim} |-> sum_nitems(iter_chunks)]

\* the method sequence_chunks(): files_per_chunk * nitems_per_file
sequence_chunks == files_per_chunk * nitems_per_file

\* ---------------------------------------------------------------------------
\* InputCache: FSSpecFileOpenerMixin, InputCachingMixin
\* ---------------------------------------------------------------------------

\* one item of file fname along the sequence dimension
Item(fname, j) == <<fname, j>>

\* the first record of every source file; a payload without it does not decode
FileHeader(fname) == <<-1, fname>>

\* the bytes at the origin of input fname
SourceBytes(fname) == <<FileHeader(fname)>> \o [j \in 1..actual_nitems |-> Item(fname, j)]

\* FSSpecFileOpenerMixin.input_opener: fsspec.open(fname) and f.read()
fsspec_open(fname) == SourceBytes(fname)

NoEntry == [exists |-> FALSE, payload |-> <<>>]

cache_func_append(cache, fname) ==
    [cache EXCEPT ![fname] = [exists  |-> TRUE,
                              payload |-> cache[fname].payload \o fsspec_open(fname)]]

\* cache_func: input_cache.open(fname, mode="wb") truncates, then target.write(source.read())
cache_func(cache, fname) ==
    [cache EXCEPT ![fname] = [exists |-> TRUE, payload |-> <<>> \o fsspec_open(fname)]]

input_opener_ignores_require_cache(fname) ==
    IF input_cache[fname].exists
    THEN [status |-> "ok", via |-> "cache", bytes |-> input_cache[fname].payload]
    ELSE [status |-> "ok", via |-> "direct", bytes |-> fsspec_open(fname)]

\* InputCachingMixin.input_opener: the cached bytes, else IOError if require_cache, else the direct opener
input_opener(fname) ==
    IF input_cache[fname].exists
    THEN [status |-> "ok", via |-> "cache", bytes |-> input_cache[fname].payload]
    ELSE IF require_cache
         THEN [status |-> "IOError", via |-> "none", bytes |-> <<>>]
         ELSE [status |-> "ok", via |-> "direct", bytes |-> fsspec_open(fname)]

\* xr.open_dataset(f): the items the payload holds, when it starts with a file header
xr_open_dataset(bytes) ==
    IF Len(bytes) > 0 /\ bytes[1][1] = -1
    THEN [status |-> "ok", items |-> Tail(bytes)]
    ELSE [status |-> "ValueError", items |-> <<>>]

\* XarrayInputOpener.open_input
open_input(fname) ==
    LET f == input_opener(fname)
    IN  IF f.status = "ok" THEN xr_open_dataset(f.bytes)
        ELSE [status |-> f.status, items |-> <<>>]

\* xr.concat(dsets) along the sequence dimension; the first failing open_input raises
RECURSIVE xr_concat(_)
xr_concat(inputs) ==
    IF inputs = <<>> THEN [status |-> "ok", items |-> <<>>]
    ELSE LET d    == open_input(Head(inputs))
             rest == xr_concat(Tail(inputs))
         IN  IF d.status # "ok" THEN d
             ELSE IF rest.status # "ok" THEN rest
             ELSE [status |-> "ok", items |-> d.items \o rest.items]

\* XarrayConcatChunkOpener.open_chunk
open_chunk(chunk_key) ==
    LET inputs == inputs_for_chunk(chunk_key)
    IN  IF inputs.status = "ok" THEN xr_concat(inputs.value)
        ELSE [status |-> inputs.status, items |-> <<>>]

\* ---------------------------------------------------------------------------
\* Target store and the datasets written to it
\* ---------------------------------------------------------------------------

\* the variables of the decoded datasets and their dimensions
DsVars == {"temp", "wind", "mask"}

ds_dims(v) ==
    CASE v = "temp" -> <<"time", "x">>
      [] v = "wind" -> <<"x", "time">>
      [] v = "mask" -> <<"x">>

\* ds[v].get_axis_num(dim); tuples are indexed from 1 here
get_axis_num(v, dim) == CHOOSE i \in 1..Len(ds_dims(v)) : ds_dims(v)[i] = dim

has_dim(v, dim) == \E i \in 1..Len(ds_dims(v)) : ds_dims(v)[i] = dim

\* the shape of variable v in a dataset holding n items along the sequence dimension
ds_shape(v, n) ==
    [i \in 1..Len(ds_dims(v)) |-> IF ds_dims(v)[i] = sequence_dim THEN n ELSE 2]

\* a position of the target that no write has filled
Fill == <<0, 0>>

AbsentTarget == [exists |-> FALSE, shape |-> [v \in DsVars |-> <<>>], data |-> <<>>]

\* ds.chunk().to_zarr(store, compute=False): the schema of ds, no data;
\* the default mode "w-" raises when the store already holds a group
to_zarr_schema(t, items) ==
    IF t.exists
    THEN [status |-> "ContainsGroupError", target |-> t]
    ELSE [status |-> "ok",
          target |-> [exists |-> TRUE,
                      shape  |-> [v \in DsVars |-> ds_shape(v, Len(items))],
                      data   |-> [p \in 1..Len(items) |-> Fill]]]

sequence_axes_all_variables == [v \in DsVars |-> 1]

\* {v: ds[v].get_axis_num(sequence_dim) for v in ds if sequence_dim in ds[v].dims}
sequence_axes ==
    [v \in {w \in DsVars : has_dim(w, sequence_dim)} |-> get_axis_num(v, sequence_dim)]

zarr_resize_grows_by(t, axes, N) ==
    [t EXCEPT !.shape = [v \in DsVars |->
                            IF v \in DOMAIN axes
                            THEN [t.shape[v] EXCEPT ![axes[v]] = @ + N]
                            ELSE t.shape[v]],
              !.data  = t.data \o [p \in 1..N |-> Fill]]

\* arr.resize(shape) for every array of axes, with shape[axis] = N
zarr_resize(t, axes, N) ==
    [t EXCEPT !.shape = [v \in DsVars |->
                            IF v \in DOMAIN axes
                            THEN [t.shape[v] EXCEPT ![axes[v]] = N]
                            ELSE t.shape[v]],
              !.data  = [p \in 1..N |-> IF p <= Len(t.data) THEN t.data[p] ELSE Fill]]

\* the extent of stored variable v along the sequence dimension
extent(t, v) == t.shape[v][get_axis_num(v, sequence_dim)]

to_zarr_region_appends(t, items, region) ==
    IF ~t.exists
    THEN [status |-> "GroupNotFoundError", target |-> t]
    ELSE IF Len(items) # region.stop - region.start
    THEN [status |-> "ValueError", target |-> t]
    ELSE [status |-> "ok",
          target |-> [t EXCEPT !.shape = [v \in DsVars |->
                                             IF has_dim(v, sequence_dim)
                                             THEN [t.shape[v] EXCEPT
                                                      ![get_axis_num(v, sequence_dim)] =
                                                          @ + Len(items)]
                                             ELSE t.shape[v]],
                               !.data  = t.data \o items]]

to_zarr_region_clips(t, items, region) ==
    IF ~t.exists
    THEN [status |-> "GroupNotFoundError", target |-> t]
    ELSE [status |-> "ok",
          target |-> [t EXCEPT !.data =
                         [p \in 1..Len(t.data) |->
                             IF region.start < p /\ p <= region.stop
                                                 /\ p <= region.start + Len(items)
                             THEN items[p - region.start]
                             ELSE t.data[p]]]]

\* ds.to_zarr(mapper, region={sequence_dim: slice(start, stop)}): needs existing
\* arrays that contain the region and a dataset as long as the region
to_zarr_region(t, items, region) ==
    IF ~t.exists
    THEN [status |-> "GroupNotFoundError", target |-> t]
    ELSE IF \/ Len(items) # region.stop - region.start
            \/ \E v \in DsVars : has_dim(v, sequence_dim) /\ region.stop > extent(t, v)
         THEN [status |-> "ValueError", target |-> t]
         ELSE [status |-> "ok",
               target |-> [t EXCEPT !.data =
                              [p \in 1..Len(t.data) |->
                                  IF region.start < p /\ p <= region.stop
                                  THEN items[p - region.start]
                                  ELSE t.data[p]]]]

\* a region write cut short after its first n items
to_zarr_region_partial(t, items, region, n) ==
    [t EXCEPT !.data = [p \in 1..Len(t.data) |->
                           IF region.start < p /\ p <= region.start + n
                           THEN items[p - region.start]
                           ELSE t.data[p]]]

store_chunk_at_zero(t, chunk_key) ==
    LET ds_chunk == open_chunk(chunk_key)
        region   == region_for_chunk(chunk_key)
    IN  IF ds_chunk.status # "ok" THEN [status |-> ds_chunk.status, target |-> t]
        ELSE to_zarr_region(t, ds_chunk.items,
                            [start |-> 0, stop |-> region.value.stop - region.value.start])

\* ZarrWriterMixin._store_chunk
store_chunk(t, chunk_key) ==
    LET ds_chunk     == open_chunk(chunk_key)
        write_region == region_for_chunk(chunk_key)
    IN  IF ds_chunk.status # "ok" THEN [status |-> ds_chunk.status, target |-> t]
        ELSE to_zarr_region(t, ds_chunk.items, write_region.value)

\* the ways self.open_target(target_store) can end
OpenOutcomes == {"ok", "IOError_not_found", "IOError_other", "OtherError"}

\* an existing target does not fail as not found, an absent one does not open
open_possible(t, outcome) ==
    /\ outcome = "ok" => t.exists
    /\ outcome = "IOError_not_found" => ~t.exists

\* prepare, lines 205-213: open the target, on IOError write the schema of the first chunk
prepare_open_or_create(t, outcome) ==
    IF outcome = "ok" THEN [status |-> "ok", target |-> t, created |-> FALSE]
    ELSE IF outcome = "OtherError" THEN [status |-> outcome, target |-> t, created |-> FALSE]
    ELSE LET first_chunk_key == Head(iter_chunks)
             ds              == open_chunk(first_chunk_key)
         IN  IF ds.status # "ok"
             THEN [status |-> ds.status, target |-> t, created |-> FALSE]
             ELSE LET w == to_zarr_schema(t, ds.items)
                  IN  [status |-> w.status, target |-> w.target, created |-> w.status = "ok"]

prepare_returns_when_opened(t, outcome) ==
    LET c == prepare_open_or_create(t, outcome)
    IN  IF c.status # "ok" \/ outcome = "ok"
        THEN [status |-> c.status, target |-> c.target,
              created |-> c.created, resized |-> FALSE]
        ELSE LET N == sequence_dim_size
             IN  [status  |-> "ok",
                  target  |-> zarr_resize(c.target, sequence_axes, N[sequence_dim]),
                  created |-> c.created,
                  resized |-> TRUE]

\* FileSequenceRecipe.prepare: the open or create step, then the resize of lines 215-229
prepare(t, outcome) ==
    LET c == prepare_open_or_create(t, outcome)
    IN  IF c.status # "ok" THEN [status |-> c.status, target |-> c.target,
                                 created |-> c.created, resized |-> FALSE]
        ELSE LET N == sequence_dim_size
             IN  [status  |-> "ok",
                  target  |-> zarr_resize(c.target, sequence_axes, N[sequence_dim]),
                  created |-> c.created,
                  resized |-> TRUE]

\* DatasetRecipe.finalize, which no subclass overrides
finalize(t) == [status |-> "NotImplementedError", target |-> t]

\* ---------------------------------------------------------------------------
\* The recipe as a state machine
\* ---------------------------------------------------------------------------

Range(seq) == {seq[i] : i \in 1..Len(seq)}

NoCall == [op |-> "none", key |-> 0, status |-> "ok", value |-> <<>>]

NoHist == [valid |-> FALSE, target |-> AbsentTarget]

NoLog == [prepared |-> FALSE, stored |-> {}]

NoProcs == <<>>

\* the state after construction of a caching recipe over n files
Init ==
    /\ \E n \in 1..MaxFiles : file_urls = [i \in 1..n |-> i]
    /\ files_per_chunk \in 1..MaxFilesPerChunk
    /\ nitems_per_file \in 1..MaxItemsPerFile
    /\ require_cache \in BOOLEAN
    /\ chunks_files = post_init(file_urls, files_per_chunk)
    /\ actual_nitems \in 1..MaxItemsPerFile
    /\ input_cache = [f \in Range(file_urls) |-> NoEntry]
    /\ target = AbsentTarget
    /\ ret = NoCall
    /\ hist = NoHist
    /\ log = NoLog
    /\ procs = NoProcs

\* r.prepare(), with the open of the target ending in `outcome`
Prepare(outcome) ==
    /\ open_possible(target, outcome)
    /\ LET r == prepare(target, outcome)
       IN  /\ target' = r.target
           /\ ret' = [op |-> "prepare", key |-> outcome, status |-> r.status,
                      value |-> [created |-> r.created, resized |-> r.resized,
                                 again   |-> ret.op = "prepare" /\ ret.status = "ok"]]
           /\ log' = [log EXCEPT !.prepared = @ \/ r.status = "ok"]
    /\ hist' = NoHist
    /\ UNCHANGED <<config, input_cache, procs>>

\* r.prepare() on a worker that is stopped after line 213, before the resize
PrepareInterrupted(outcome) ==
    /\ open_possible(target, outcome)
    /\ LET c == prepare_open_or_create(target, outcome)
       IN  /\ c.created
           /\ target' = c.target
           /\ ret' = [op |-> "prepare", key |-> outcome, status |-> "interrupted",
                      value |-> [created |-> TRUE, resized |-> FALSE, again |-> FALSE]]
    /\ hist' = NoHist
    /\ UNCHANGED <<config, input_cache, log, procs>>

\* r.cache_input(input_key)
CacheInput(input_key) ==
    /\ input_cache' = cache_func(input_cache, input_key)
    /\ ret' = [op |-> "cache_input", key |-> input_key, status |-> "ok",
               value |-> [had_entry |-> input_cache[input_key].exists]]
    /\ hist' = NoHist
    /\ UNCHANGED <<config, target, log, procs>>

\* with r.input_opener(fname) as f: f.read()
OpenInput(fname) ==
    /\ LET f == input_opener(fname)
       IN  ret' = [op |-> "input_opener", key |-> fname, status |-> f.status,
                   value |-> [via |-> f.via, bytes |-> f.bytes,
                              had_entry |-> input_cache[fname].exists]]
    /\ hist' = NoHist
    /\ UNCHANGED <<config, input_cache, target, log, procs>>

\* how the call just before this one ended, when it was store_chunk(chunk_key) too
previous_attempt(chunk_key) ==
    IF ret.op = "store_chunk" /\ ret.key = chunk_key THEN ret.status ELSE "none"

\* r.store_chunk(chunk_key)
StoreChunk(chunk_key) ==
    /\ LET r == store_chunk(target, chunk_key)
       IN  /\ target' = r.target
           /\ ret' = [op |-> "store_chunk", key |-> chunk_key, status |-> r.status,
                      value |-> [after |-> previous_attempt(chunk_key)]]
           /\ log' = [log EXCEPT !.stored = IF r.status = "ok"
                                            THEN @ \cup {chunk_key} ELSE @]
    /\ hist' = NoHist
    /\ UNCHANGED <<config, input_cache, procs>>

\* r.store_chunk(chunk_key) aborted by the scheduler after n items of the region are written
StoreChunkInterrupted(chunk_key, n) ==
    /\ n < nitems_for_chunk(chunk_key).value
    /\ store_chunk(target, chunk_key).status = "ok"
    /\ target' = to_zarr_region_partial(target, open_chunk(chunk_key).items,
                                        region_for_chunk(chunk_key).value, n)
    /\ ret' = [op |-> "store_chunk", key |-> chunk_key, status |-> "interrupted",
               value |-> [after |-> previous_attempt(chunk_key)]]
    /\ hist' = [valid |-> TRUE, target |-> target]
    /\ UNCHANGED <<config, input_cache, log, procs>>

\* r.finalize()
Finalize ==
    /\ LET r == finalize(target)
       IN  /\ target' = r.target
           /\ ret' = [op |-> "finalize", key |-> 0, status |-> r.status, value |-> {}]
    /\ hist' = NoHist
    /\ UNCHANGED <<config, input_cache, log, procs>>

Next ==
    \/ \E outcome \in OpenOutcomes : Prepare(outcome)
    \/ \E outcome \in OpenOutcomes : PrepareInterrupted(outcome)
    \/ \E input_key \in Range(file_urls) : CacheInput(input_key)
    \/ \E chunk_key \in Range(iter_chunks) : StoreChunk(chunk_key)
    \/ \E chunk_key \in Range(iter_chunks) :
          \E n \in 0..(nitems_for_chunk(chunk_key).value - 1) :
              StoreChunkInterrupted(chunk_key, n)
    \/ Finalize

Spec == Init /\ [][Next]_vars

\* ---------------------------------------------------------------------------
\* The planner alone, over larger configurations
\* ---------------------------------------------------------------------------

InitPlan ==
    /\ \E n \in 1..MaxPlanFiles : file_urls = [i \in 1..n |-> i]
    /\ files_per_chunk \in 1..MaxPlanFilesPerChunk
    /\ nitems_per_file \in 1..MaxPlanItemsPerFile
    /\ require_cache = FALSE
    /\ chunks_files = post_init(file_urls, files_per_chunk)
    /\ actual_nitems = nitems_per_file
    /\ input_cache = [f \in Range(file_urls) |-> NoEntry]
    /\ target = AbsentTarget
    /\ ret = NoCall
    /\ hist = NoHist
    /\ log = NoLog
    /\ procs = NoProcs

\* the chunk keys a caller may pass: every key of the plan, two below and two above
PlanKeys == -2..(Len(chunks_files) + 1)

\* list(r.iter_chunks())
IterChunks ==
    /\ ret' = [op |-> "iter_chunks", key |-> 0, status |-> "ok", value |-> iter_chunks]
    /\ UNCHANGED <<config, input_cache, target, hist, log, procs>>

\* r.inputs_for_chunk(chunk_key)
InputsForChunk(chunk_key) ==
    /\ LET r == inputs_for_chunk(chunk_key)
       IN  ret' = [op |-> "inputs_for_chunk", key |-> chunk_key, status |-> r.status,
                   value |-> r.value]
    /\ UNCHANGED <<config, input_cache, target, hist, log, procs>>

\* r.nitems_for_chunk(chunk_key)
NitemsForChunk(chunk_key) ==
    /\ LET r == nitems_for_chunk(chunk_key)
       IN  ret' = [op |-> "nitems_for_chunk", key |-> chunk_key, status |-> r.status,
                   value |-> r.value]
    /\ UNCHANGED <<config, input_cache, target, hist, log, procs>>

\* r.region_for_chunk(chunk_key)
RegionForChunk(chunk_key) ==
    /\ LET r == region_for_chunk(chunk_key)
       IN  ret' = [op |-> "region_for_chunk", key |-> chunk_key, status |-> r.status,
                   value |-> r.value]
    /\ UNCHANGED <<config, input_cache, target, hist, log, procs>>

NextPlan ==
    \/ IterChunks
    \/ \E chunk_key \in PlanKeys : InputsForChunk(chunk_key)
    \/ \E chunk_key \in PlanKeys : NitemsForChunk(chunk_key)
    \/ \E chunk_key \in PlanKeys : RegionForChunk(chunk_key)

SpecPlan == InitPlan /\ [][NextPlan]_vars

\* ---------------------------------------------------------------------------
\* The input cache alone: caching and opening inputs
\* ---------------------------------------------------------------------------

NextCache ==
    \/ \E input_key \in Range(file_urls) : CacheInput(input_key)
    \/ \E fname \in Range(file_urls) : OpenInput(fname)

SpecCache == Init /\ [][NextCache]_vars

\* ---------------------------------------------------------------------------
\* Properties of the chunk planner (checked under SpecPlan)
\* ---------------------------------------------------------------------------

\* C1: for every chunk key k yielded by iter_chunks, region_for_chunk(0) starts at 0
\* and region_for_chunk(k) starts where region_for_chunk(k-1) stops; the regions of
\* two distinct chunks are disjoint and together they cover every position
\* 0 .. nitems_per_file * len(file_urls) - 1 of the growth dimension.
C1_RegionsTile ==
    LET keys   == iter_chunks
        reg(k) == region_for_chunk(k)
        total  == nitems_per_file * Len(file_urls)
    IN  /\ \A i \in 1..Len(keys) :
              LET k == keys[i]
              IN  /\ reg(k).status = "ok"
                  /\ k = 0 => reg(k).value.start = 0
                  /\ k > 0 => /\ reg(k - 1).status = "ok"
                              /\ reg(k).value.start = reg(k - 1).value.stop
                  /\ reg(k).value.start < reg(k).value.stop
                  /\ reg(k).value.stop <= total
        /\ \A i, j \in 1..Len(keys) :
              i # j => \/ reg(keys[i]).value.stop <= reg(keys[j]).value.start
                       \/ reg(keys[j]).value.stop <= reg(keys[i]).value.start
        /\ \A p \in 0..(total - 1) :
              \E i \in 1..Len(keys) :
                  reg(keys[i]).value.start <= p /\ p < reg(keys[i]).value.stop
        /\ (ret.op = "region_for_chunk" /\ ret.status = "ok" /\ ret.key > 0)
              => ret.value.start = reg(ret.key - 1).value.stop

\* the last region of 10 files, 3 per chunk, 1 item per file was computed as [9, 10)
C1_Witness ==
    /\ ret.op = "region_for_chunk"
    /\ ret.status = "ok"
    /\ Len(file_urls) = 10 /\ files_per_chunk = 3 /\ nitems_per_file = 1
    /\ ret.key = 3
    /\ ret.value = [start |-> 9, stop |-> 10]

RECURSIVE concat_all(_)
concat_all(seqs) == IF seqs = <<>> THEN <<>> ELSE Head(seqs) \o concat_all(Tail(seqs))

\* C2: iter_chunks yields exactly the keys 0 .. ceil(len(file_urls)/files_per_chunk) - 1
\* in ascending order on every call; inputs_for_chunk(k) is exactly the inputs at
\* positions [k*files_per_chunk, (k+1)*files_per_chunk) clipped to the sequence
\* length; every input position belongs to exactly one chunk and the chunks
\* concatenated in key order give back file_urls.
C2_ChunksPartitionInputs ==
    LET n           == Len(file_urls)
        per         == files_per_chunk
        num_chunks  == (n + per - 1) \div per
        ascending   == [i \in 1..num_chunks |-> i - 1]
        expected(k) == SubSeq(file_urls, k * per + 1, Min((k + 1) * per, n))
    IN  /\ iter_chunks = ascending
        /\ \A k \in 0..(num_chunks - 1) :
              /\ inputs_for_chunk(k).status = "ok"
              /\ inputs_for_chunk(k).value = expected(k)
        /\ \A p \in 1..n :
              Cardinality({i \in 1..Len(iter_chunks) :
                              LET k == iter_chunks[i]
                              IN  \E q \in 1..Len(inputs_for_chunk(k).value) :
                                      k * per + q = p}) = 1
        /\ concat_all([i \in 1..Len(iter_chunks) |->
                          inputs_for_chunk(iter_chunks[i]).value]) = file_urls
        /\ ret.op = "iter_chunks" => ret.value = ascending
        /\ (ret.op = "inputs_for_chunk" /\ ret.key \in 0..(num_chunks - 1))
              => ret.status = "ok" /\ ret.value = expected(ret.key)

\* iter_chunks was called on 10 files chunked by 3 and yielded 4 keys
C2_Witness ==
    /\ ret.op = "iter_chunks"
    /\ Len(file_urls) = 10 /\ files_per_chunk = 3
    /\ ret.value = <<0, 1, 2, 3>>
    /\ inputs_for_chunk(3).value = <<10>>

\* ---------------------------------------------------------------------------
\* Properties of prepare (checked under Spec)
\* ---------------------------------------------------------------------------

\* C3: when prepare has created the target and returned, every variable that has
\* the sequence dimension has, along it, the extent sum(nitems_for_chunk(k)) =
\* nitems_per_file * len(file_urls), and every other extent, and the shape of the
\* variables without the sequence dimension, is the one of the first chunk's dataset.
C3_PrepareSizesNewTarget ==
    (ret.op = "prepare" /\ ret.status = "ok" /\ ret.value.created) =>
        LET total == nitems_per_file * Len(file_urls)
        IN  /\ sequence_dim_size[sequence_dim] = total
            /\ target.exists
            /\ Len(target.data) = total
            /\ \A v \in DsVars :
                  IF has_dim(v, sequence_dim)
                  THEN target.shape[v] = ds_shape(v, total)
                  ELSE target.shape[v] = ds_shape(v, 0)

\* prepare created a target for 2 files, 1 per chunk, 2 items per file: the
\* placeholder of the first chunk's 2 items was resized to 4
C3_Witness ==
    /\ ret.op = "prepare" /\ ret.status = "ok" /\ ret.value.created
    /\ Len(file_urls) = 2 /\ files_per_chunk = 1 /\ nitems_per_file = 2
    /\ actual_nitems = 2
    /\ extent(target, "temp") = 4 /\ extent(target, "wind") = 4
    /\ target.shape["mask"] = <<2>>

\* C4: a prepare that follows a prepare that returned leaves the target as the
\* first one left it: same schema, same size, same data.
C4_PrepareIdempotent ==
    [][(ret.op = "prepare" /\ ret.status = "ok" /\ ret'.op = "prepare")
          => target' = target]_vars

\* prepare returned a second time in a row, on a target that holds chunk data
C4_Witness ==
    /\ ret.op = "prepare" /\ ret.status = "ok" /\ ret.value.again
    /\ \E p \in 1..Len(target.data) : target.data[p] # Fill
    /\ \E p \in 1..Len(target.data) : target.data[p] = Fill

\* C5 as claimed: when the target opens as an existing dataset, prepare is a no-op:
\* the target store is after the call as it was before it.
C5_PrepareOnExistingIsNoOp ==
    [][(ret'.op = "prepare" /\ ret'.key = "ok") => target' = target]_vars

\* C5 as amended: when the target opens as an existing dataset, prepare writes no
\* placeholder and commits no schema, but it resizes every variable that has the
\* sequence dimension to the final total size; the other extents and the data
\* already written by store_chunk are unchanged.
C5_PrepareOnExistingOnlyResizes ==
    [][(ret'.op = "prepare" /\ ret'.key = "ok")
          => LET total == nitems_per_file * Len(file_urls)
             IN  /\ ret'.status = "ok"
                 /\ ~ret'.value.created
                 /\ ret'.value.resized
                 /\ target'.exists
                 /\ \A v \in DsVars :
                       IF has_dim(v, sequence_dim)
                       THEN target'.shape[v] =
                               [target.shape[v] EXCEPT
                                   ![get_axis_num(v, sequence_dim)] = total]
                       ELSE target'.shape[v] = target.shape[v]
                 /\ Len(target'.data) = total
                 /\ \A p \in 1..Min(Len(target.data), total) :
                       target'.data[p] = target.data[p]]_vars

\* prepare opened an existing target that holds chunk data, and resized it
C5_Witness ==
    /\ ret.op = "prepare" /\ ret.key = "ok" /\ ret.status = "ok"
    /\ ret.value.resized /\ ~ret.value.again
    /\ \E p \in 1..Len(target.data) : target.data[p] # Fill

\* C6 as claimed: only a "does not exist" failure of the open makes prepare create
\* the placeholder; any other failure of the open propagates to the caller and
\* leaves the target unmodified.
C6_OnlyNotFoundCreates ==
    [][(ret'.op = "prepare" /\ ret'.key \in {"IOError_other", "OtherError"})
          => /\ ret'.status = ret'.key
             /\ target' = target
             /\ ~ret'.value.created
             /\ ~ret'.value.resized]_vars

\* ---------------------------------------------------------------------------
\* Properties of the input cache (checked under SpecCache)
\* ---------------------------------------------------------------------------

\* C7: opening an input whose key has a cache entry gives the cached bytes; without
\* an entry the open fails with the cache-miss IOError and does not contact the
\* origin when require_cache is true, and goes through the direct opener when it
\* is false; an open never creates or changes a cache entry.
C7_OpenFallbackPolicy ==
    [][ret'.op = "input_opener"
          => LET x == ret'.key
                 e == input_cache[x]
             IN  /\ input_cache' = input_cache
                 /\ e.exists => /\ ret'.status = "ok"
                                /\ ret'.value.via = "cache"
                                /\ ret'.value.bytes = e.payload
                 /\ (~e.exists /\ require_cache)
                       => /\ ret'.status = "IOError"
                          /\ ret'.value.via = "none"
                          /\ ret'.value.bytes = <<>>
                 /\ (~e.exists /\ ~require_cache)
                       => /\ ret'.status = "ok"
                          /\ ret'.value.via = "direct"
                          /\ ret'.value.bytes = SourceBytes(x)
                          /\ ~input_cache'[x].exists]_vars

\* an open failed with the cache miss while another input was cached
C7_Witness ==
    /\ ret.op = "input_opener" /\ ret.status = "IOError"
    /\ require_cache /\ ~input_cache[ret.key].exists
    /\ \E f \in DOMAIN input_cache : input_cache[f].exists

\* C8: cache_input(x) leaves under x exactly the bytes the direct opener returns
\* for x, also when x was cached before, and changes no other entry; an open of a
\* cached x returns bytes identical to the direct opener's.
C8_CacheRoundTrip ==
    [][/\ ret'.op = "cache_input"
             => /\ input_cache'[ret'.key] =
                      [exists |-> TRUE, payload |-> SourceBytes(ret'.key)]
                /\ \A f \in DOMAIN input_cache :
                      f # ret'.key => input_cache'[f] = input_cache[f]
       /\ (ret'.op = "input_opener" /\ input_cache[ret'.key].exists)
             => /\ ret'.status = "ok"
                /\ ret'.value.bytes = SourceBytes(ret'.key)]_vars

\* an input that was already cached was cached again, and opens to the source bytes
C8_Witness ==
    /\ ret.op = "cache_input" /\ ret.value.had_entry
    /\ input_opener(ret.key).via = "cache"
    /\ input_opener(ret.key).bytes = SourceBytes(ret.key)
    /\ Len(SourceBytes(ret.key)) > 2

\* ---------------------------------------------------------------------------
\* Properties of store_chunk (checked under Spec)
\* ---------------------------------------------------------------------------

\* the items of the inputs at the positions chunk_key owns, in input order
expected_items(chunk_key) ==
    LET lo == chunk_key * files_per_chunk + 1
        hi == Min((chunk_key + 1) * files_per_chunk, Len(file_urls))
    IN  concat_all([i \in 1..(hi - lo + 1) |->
                       [j \in 1..actual_nitems |-> Item(file_urls[lo + i - 1], j)]])

\* C9: store_chunk(k) changes no position of the growth dimension outside
\* region_for_chunk(k), nor the shape of any variable; when it returns, the positions
\* of region_for_chunk(k) hold the items of chunk k's inputs, in order.
C9_StoreChunkWritesOwnRegion ==
    [][ret'.op = "store_chunk"
          => LET k == ret'.key
                 r == region_for_chunk(k).value
             IN  /\ target'.exists = target.exists
                 /\ target'.shape = target.shape
                 /\ Len(target'.data) = Len(target.data)
                 /\ \A p \in 1..Len(target.data) :
                       (p <= r.start \/ p > r.stop) => target'.data[p] = target.data[p]
                 /\ ret'.status = "ok"
                       => /\ r.stop <= Len(target'.data)
                          /\ Len(expected_items(k)) = r.stop - r.start
                          /\ \A p \in (r.start + 1)..r.stop :
                                target'.data[p] = expected_items(k)[p - r.start]]_vars

\* store_chunk(1) returned: its region holds its data, chunk 0 keeps the data written before
C9_Witness ==
    /\ ret.op = "store_chunk" /\ ret.status = "ok" /\ ret.key = 1
    /\ files_per_chunk = 1 /\ nitems_per_file = 2 /\ Len(file_urls) = 2
    /\ target.data = <<Item(1, 1), Item(1, 2), Item(2, 1), Item(2, 2)>>

\* C10: store_chunk(k) run again right after it returned leaves the target as it
\* was; run after an interrupted attempt it leaves the target as one run from
\* before the attempt would: region k holds chunk k's items, everything else and
\* the size are as before the attempt.
C10_StoreChunkIdempotent ==
    [][/\ (ret.op = "store_chunk" /\ ret.status = "ok"
           /\ ret'.op = "store_chunk" /\ ret'.key = ret.key)
             => target' = target
       /\ (ret.op = "store_chunk" /\ ret.status = "interrupted" /\ hist.valid
           /\ ret'.op = "store_chunk" /\ ret'.key = ret.key /\ ret'.status = "ok")
             => LET r == region_for_chunk(ret.key).value
                IN  /\ target'.shape = hist.target.shape
                    /\ target'.data =
                          [p \in 1..Len(hist.target.data) |->
                              IF r.start < p /\ p <= r.stop
                              THEN expected_items(ret.key)[p - r.start]
                              ELSE hist.target.data[p]]]_vars

\* store_chunk(1) returned after an interrupted attempt at the same chunk
C10_Witness ==
    /\ ret.op = "store_chunk" /\ ret.status = "ok" /\ ret.key = 1
    /\ ret.value.after = "interrupted"
    /\ Len(target.data) = nitems_per_file * Len(file_urls)


\* ---------------------------------------------------------------------------
\* Size mismatches between the plan and the inputs (checked under Spec)
\* ---------------------------------------------------------------------------

\* the errors with which ds.to_zarr(mapper, region=...) refuses a write
region_write_errors == {"ValueError", "GroupNotFoundError"}

missing_chunks == Range(iter_chunks) \ log.stored

\* C12: finalize fails with an incomplete-write error that names the missing chunk
\* keys whenever some chunk key has never had store_chunk complete; it succeeds
\* (Finalized) only when every chunk has been written.
C12_FinalizeReportsMissingChunks ==
    ret.op = "finalize" =>
        /\ missing_chunks # {} => /\ ret.status = "IncompleteWriteError"
                                  /\ ret.value = missing_chunks
        /\ ret.status = "ok" => missing_chunks = {}


\* C15: no store_chunk commits data before a prepare has completed the resize: a
\* store_chunk called while the target is absent, or while it is still at the
\* placeholder size that an unfinished prepare left, does not write.
C15_NoWriteBeforePrepared ==
    [][(ret'.op = "store_chunk" /\ target' # target) => log.prepared]_vars

\* ---------------------------------------------------------------------------
\* Unknown chunk keys and the arithmetic of the plan (checked under SpecPlan)
\* ---------------------------------------------------------------------------

\* C14: inputs_for_chunk, nitems_for_chunk and region_for_chunk fail with the
\* unknown-chunk error (KeyError) for every key outside [0, num_chunks), negative
\* keys and k = num_chunks included; they return no inputs, count or region for it.
C14_UnknownChunkKeyFails ==
    LET n          == Len(file_urls)
        num_chunks == (n + files_per_chunk - 1) \div files_per_chunk
        planning   == {"inputs_for_chunk", "nitems_for_chunk", "region_for_chunk"}
    IN  /\ {-2, -1, num_chunks, num_chunks + 1} \subseteq PlanKeys
        /\ \A k \in PlanKeys :
              (k < 0 \/ k >= num_chunks) =>
                  /\ inputs_for_chunk(k).status = "KeyError"
                  /\ nitems_for_chunk(k).status = "KeyError"
                  /\ region_for_chunk(k).status = "KeyError"
        /\ (ret.op \in planning /\ (ret.key < 0 \/ ret.key >= num_chunks))
              => ret.status = "KeyError"

\* region_for_chunk(4) was asked of a plan of 10 files in 4 chunks and failed
C14_Witness ==
    /\ ret.op = "region_for_chunk"
    /\ Len(file_urls) = 10 /\ files_per_chunk = 3
    /\ ret.key = 4
    /\ ret.status = "KeyError"

\* C17: for every chunk key k, nitems_for_chunk(k) is nitems_per_file times the
\* number of inputs of inputs_for_chunk(k); region_for_chunk(k) is as long as
\* nitems_for_chunk(k); and its start, k * nitems_per_file * files_per_chunk, is
\* the sum of nitems_for_chunk(j) over the keys j < k.
C17_PlanArithmetic ==
    /\ \A i \in 1..Len(iter_chunks) :
          LET k      == iter_chunks[i]
              inputs == inputs_for_chunk(k)
              nitems == nitems_for_chunk(k)
              region == region_for_chunk(k)
          IN  /\ inputs.status = "ok" /\ nitems.status = "ok" /\ region.status = "ok"
              /\ nitems.value = nitems_per_file * Len(inputs.value)
              /\ region.value.stop - region.value.start = nitems.value
              /\ region.value.start = k * nitems_per_file * files_per_chunk
              /\ region.value.start = sum_nitems(SubSeq(iter_chunks, 1, i - 1))
    /\ (ret.op = "nitems_for_chunk" /\ ret.status = "ok")
          => ret.value = nitems_per_file * Len(inputs_for_chunk(ret.key).value)
    /\ (ret.op = "region_for_chunk" /\ ret.status = "ok")
          => /\ ret.value.stop - ret.value.start = nitems_for_chunk(ret.key).value
             /\ ret.value.start = sum_nitems([j \in 1..ret.key |-> j - 1])

\* the last chunk of 10 files, 4 per chunk, 3 items per file holds 2 files: 6 items
C17_Witness ==
    /\ ret.op = "nitems_for_chunk"
    /\ ret.status = "ok"
    /\ Len(file_urls) = 10 /\ files_per_chunk = 4 /\ nitems_per_file = 3
    /\ ret.key = 2
    /\ ret.value = 6


\* ---------------------------------------------------------------------------
\* The documented manual execution of a caching recipe, run as one script
\* ---------------------------------------------------------------------------

\* DatasetRecipe.iter_inputs, which no mixin and no subclass overrides
iter_inputs == <<>>

\* for input_key in r.iter_inputs(): r.cache_input(input_key)
RECURSIVE cache_inputs(_, _)
cache_inputs(cache, input_keys) ==
    IF input_keys = <<>> THEN cache
    ELSE cache_inputs(cache_func(cache, Head(input_keys)), Tail(input_keys))

\* a target as an earlier execution over the same inputs left it after prepare
prepared_target ==
    LET first_chunk_key == Head(iter_chunks)
        N               == sequence_dim_size
    IN  zarr_resize(to_zarr_schema(AbsentTarget, expected_items(first_chunk_key)).target,
                    sequence_axes, N[sequence_dim])

\* the script starts on a fresh recipe whose target is absent or was prepared before
InitManual ==
    /\ \E n \in 1..MaxFiles : file_urls = [i \in 1..n |-> i]
    /\ files_per_chunk \in 1..MaxFilesPerChunk
    /\ nitems_per_file \in 1..MaxItemsPerFile
    /\ require_cache \in BOOLEAN
    /\ chunks_files = post_init(file_urls, files_per_chunk)
    /\ actual_nitems \in 1..MaxItemsPerFile
    /\ input_cache = [f \in Range(file_urls) |-> NoEntry]
    /\ target \in {AbsentTarget, prepared_target}
    /\ ret = NoCall
    /\ hist = NoHist
    /\ log = [prepared |-> target.exists, stored |-> {}]
    /\ procs = NoProcs

\* r.prepare()  # 3
ManualPrepare ==
    /\ ret = NoCall
    /\ \E outcome \in {"ok", "IOError_not_found"} : Prepare(outcome)

\* the whole loop of step 4 over r.iter_inputs()
ManualCacheInputs ==
    /\ ret.op = "prepare" /\ ret.status = "ok"
    /\ input_cache' = cache_inputs(input_cache, iter_inputs)
    /\ ret' = [op |-> "cache_inputs", key |-> 0, status |-> "ok", value |-> iter_inputs]
    /\ hist' = NoHist
    /\ UNCHANGED <<config, target, log, procs>>

\* the position in iter_chunks of the chunk that the loop of step 5 stores next
next_chunk_index ==
    IF ret.op = "cache_inputs" THEN 1
    ELSE IF ret.op = "store_chunk" /\ ret.status = "ok"
         THEN 1 + (CHOOSE i \in 1..Len(iter_chunks) : iter_chunks[i] = ret.key)
         ELSE 0

\* one pass of the loop of step 5: r.store_chunk(chunk_key)
ManualStoreChunk ==
    /\ next_chunk_index \in 1..Len(iter_chunks)
    /\ StoreChunk(iter_chunks[next_chunk_index])

\* r.finalize()  # 6
ManualFinalize ==
    /\ next_chunk_index = Len(iter_chunks) + 1
    /\ Finalize

NextManual ==
    \/ ManualPrepare
    \/ ManualCacheInputs
    \/ ManualStoreChunk
    \/ ManualFinalize

SpecManual == InitManual /\ [][NextManual]_vars

\* C16: in the manual execution of a caching recipe the loop over iter_inputs
\* caches every input: when the chunk loop starts, and while it runs, every input
\* of every chunk is in the cache, and with require_cache true no store_chunk
\* fails with a cache miss.
C16_ManualExecutionCachesAllInputs ==
    /\ ret.op \in {"cache_inputs", "store_chunk"} =>
           \A i \in 1..Len(iter_chunks) :
               \A f \in Range(inputs_for_chunk(iter_chunks[i]).value) :
                   input_cache[f].exists
    /\ (require_cache /\ ret.op = "store_chunk") => ret.status # "IOError"


\* ---------------------------------------------------------------------------
\* Several workers in prepare at once, step by step
\* ---------------------------------------------------------------------------

Workers == 1..NumWorkers

\* the size along the sequence dimension that prepare resizes to
final_size == sequence_dim_size[sequence_dim]

\* every variable with the sequence dimension has the final size
has_final_size(t) ==
    t.exists /\ \A v \in DOMAIN sequence_axes : extent(t, v) = final_size

\* a worker that has not called prepare yet
IdleWorker == [pc |-> "start", saw |-> "nothing", todo |-> {}, resized |-> {},
               status |-> "running"]

InitPrepare ==
    /\ \E n \in 1..MaxFiles : file_urls = [i \in 1..n |-> i]
    /\ files_per_chunk \in 1..MaxFilesPerChunk
    /\ nitems_per_file \in 1..MaxItemsPerFile
    /\ require_cache \in BOOLEAN
    /\ chunks_files = post_init(file_urls, files_per_chunk)
    /\ actual_nitems \in 1..MaxItemsPerFile
    /\ input_cache = [f \in Range(file_urls) |-> NoEntry]
    /\ target = AbsentTarget
    /\ ret = NoCall
    /\ hist = NoHist
    /\ log = NoLog
    /\ procs = [w \in Workers |-> IdleWorker]

prepare_after_open_returns(opened) == IF opened THEN "done" ELSE "to_zarr"

\* where prepare goes on after the try/except around open_target: an opened
\* target falls through to the resize, a missing one is created first
prepare_after_open(opened) == IF opened THEN "resize" ELSE "to_zarr"

\* ds = self.open_target(target_store), and in the handler of its IOError
\* ds = self.open_chunk(first_chunk_key).chunk()
PrepareOpen(w) ==
    /\ procs[w].pc = "start"
    /\ LET ds   == open_chunk(Head(iter_chunks))
           saw  == IF ~target.exists THEN "absent"
                   ELSE IF has_final_size(target) THEN "final" ELSE "unresized"
           next == prepare_after_open(target.exists)
       IN  procs' = [procs EXCEPT ![w] =
                        IF ~target.exists /\ ds.status # "ok"
                        THEN [@ EXCEPT !.pc = "failed", !.saw = saw, !.status = ds.status]
                        ELSE [@ EXCEPT !.pc = next, !.saw = saw,
                                       !.todo = IF next = "resize"
                                                THEN DOMAIN sequence_axes ELSE {},
                                       !.status = IF next = "done" THEN "ok" ELSE @]]
    /\ UNCHANGED <<config, input_cache, target, ret, hist, log>>

\* ds.to_zarr(...), first half: mode "w-" looks for an existing group and raises on one
PrepareToZarrCheck(w) ==
    /\ procs[w].pc = "to_zarr"
    /\ procs' = [procs EXCEPT ![w] =
                     IF target.exists
                     THEN [@ EXCEPT !.pc = "failed", !.status = "ContainsGroupError"]
                     ELSE [@ EXCEPT !.pc = "write"]]
    /\ UNCHANGED <<config, input_cache, target, ret, hist, log>>

\* ds.to_zarr(...), second half: the schema of the first chunk is written
PrepareToZarrWrite(w) ==
    /\ procs[w].pc = "write"
    /\ target' = to_zarr_schema(AbsentTarget, open_chunk(Head(iter_chunks)).items).target
    /\ procs' = [procs EXCEPT ![w] = [@ EXCEPT !.pc = "resize",
                                               !.todo = DOMAIN sequence_axes]]
    /\ UNCHANGED <<config, input_cache, ret, hist, log>>

\* one pass of the loop over sequence_axes: arr.resize(shape) for variable v;
\* prepare returns after the last pass
PrepareResize(w, v) ==
    /\ procs[w].pc = "resize"
    /\ v \in procs[w].todo
    /\ LET N == sequence_dim_size
       IN  target' = zarr_resize(target, [u \in {v} |-> sequence_axes[u]], N[sequence_dim])
    /\ procs' = [procs EXCEPT ![w] =
                     [@ EXCEPT !.todo = @ \ {v},
                               !.resized = @ \cup {v},
                               !.pc = IF procs[w].todo = {v} THEN "done" ELSE "resize",
                               !.status = IF procs[w].todo = {v} THEN "ok" ELSE @]]
    /\ UNCHANGED <<config, input_cache, ret, hist, log>>

NextPrepare ==
    \/ \E w \in Workers : PrepareOpen(w)
    \/ \E w \in Workers : PrepareToZarrCheck(w)
    \/ \E w \in Workers : PrepareToZarrWrite(w)
    \/ \E w \in Workers : \E v \in DOMAIN sequence_axes : PrepareResize(w, v)

SpecPrepare == InitPrepare /\ [][NextPrepare]_vars

\* C18: with several workers in prepare on a target that was absent at first,
\* under every interleaving of their open, placeholder-commit and resize steps:
\* no worker returns having taken a created, not yet resized target as complete
\* (every worker that returns normally has resized each variable of the sequence
\* dimension itself, and while a variable is not at the final size some worker
\* still has its resize ahead); once all workers have returned the target is
\* exactly what a single prepare leaves.
C18_ConcurrentPrepare ==
    /\ \A w \in Workers :
          procs[w].pc = "done" => procs[w].resized = DOMAIN sequence_axes
    /\ target.exists =>
          \A v \in DOMAIN sequence_axes :
              extent(target, v) # final_size =>
                  \E w \in Workers : \/ procs[w].pc = "write"
                                     \/ procs[w].pc = "resize" /\ v \in procs[w].todo
    /\ (\A w \in Workers : procs[w].pc \in {"done", "failed"})
          => target = prepare(AbsentTarget, "IOError_not_found").target

\* two files, one per chunk: one worker created the target, another opened it
\* before it was resized, both have returned
C18_Witness ==
    /\ Len(file_urls) = 2 /\ files_per_chunk = 1
    /\ \E w1, w2 \in Workers :
          /\ procs[w1].pc = "done" /\ procs[w1].saw = "absent"
          /\ procs[w2].pc = "done" /\ procs[w2].saw = "unresized"
    /\ \A w \in Workers : procs[w].pc \in {"done", "failed"}
    /\ has_final_size(target)


\* ---------------------------------------------------------------------------
\* One store_chunk per chunk key at once, step by step, on a prepared target
\* ---------------------------------------------------------------------------

zarr_chunk_len_whole_array == final_size

\* the length along the sequence dimension of the chunks of the stored arrays:
\* ds.chunk() makes one chunk of each variable of the first chunk's dataset, and
\* to_zarr lays the arrays out in these chunks; resize keeps the layout
zarr_chunk_len == actual_nitems * Len(inputs_for_chunk(Head(iter_chunks)).value)

\* the positions (from 1) of the sequence dimension that stored chunk c holds
zarr_chunk_positions(c) ==
    {p \in 1..final_size : c * zarr_chunk_len < p /\ p <= (c + 1) * zarr_chunk_len}

\* the stored chunks that a write to region touches
zarr_chunks_of(region) ==
    {c \in 0..final_size :
        \E p \in zarr_chunk_positions(c) : region.start < p /\ p <= region.stop}

\* the region covers stored chunk c whole, so the chunk is replaced without being read
is_total_slice(c, region) ==
    region.start <= c * zarr_chunk_len /\ (c + 1) * zarr_chunk_len <= region.stop

\* a writer that has not called store_chunk yet
IdleWriter == [pc |-> "start", status |-> "running", todo |-> {}, holding |-> -1,
               buf |-> <<>>]

InitStore ==
    /\ \E n \in 1..MaxStoreFiles : file_urls = [i \in 1..n |-> i]
    /\ files_per_chunk \in 1..MaxFilesPerChunk
    /\ nitems_per_file \in 1..MaxItemsPerFile
    /\ require_cache \in BOOLEAN
    /\ chunks_files = post_init(file_urls, files_per_chunk)
    /\ actual_nitems \in 1..MaxItemsPerFile
    /\ input_cache \in {[f \in Range(file_urls) |-> NoEntry],
                        cache_inputs([f \in Range(file_urls) |-> NoEntry], file_urls)}
    /\ target = prepared_target
    /\ ret = NoCall
    /\ hist = NoHist
    /\ log = [prepared |-> TRUE, stored |-> {}]
    /\ procs = [chunk_key \in Range(iter_chunks) |-> IdleWriter]

\* ds_chunk = self.open_chunk(chunk_key), the write region, and the checks that
\* to_zarr(region=...) makes before it writes
StoreChunkOpen(chunk_key) ==
    /\ procs[chunk_key].pc = "start"
    /\ LET r      == store_chunk(target, chunk_key)
           region == region_for_chunk(chunk_key).value
       IN  procs' = [procs EXCEPT ![chunk_key] =
                        IF r.status # "ok"
                        THEN [@ EXCEPT !.pc = "failed", !.status = r.status]
                        ELSE [@ EXCEPT !.pc = "write", !.todo = zarr_chunks_of(region)]]
    /\ UNCHANGED <<config, input_cache, target, ret, hist, log>>

\* to_zarr reads stored chunk c, which the region covers only in part
StoreChunkRead(chunk_key, c) ==
    /\ procs[chunk_key].pc = "write"
    /\ c \in procs[chunk_key].todo
    /\ procs[chunk_key].holding = -1
    /\ ~is_total_slice(c, region_for_chunk(chunk_key).value)
    /\ procs' = [procs EXCEPT ![chunk_key] =
                     [@ EXCEPT !.holding = c,
                               !.buf = [p \in 1..Len(target.data) |->
                                           IF p \in zarr_chunk_positions(c)
                                           THEN target.data[p] ELSE Fill]]]
    /\ UNCHANGED <<config, input_cache, target, ret, hist, log>>

\* to_zarr writes stored chunk c: the region's items, and around them what it read;
\* store_chunk returns after its last chunk
StoreChunkWrite(chunk_key, c) ==
    /\ procs[chunk_key].pc = "write"
    /\ c \in procs[chunk_key].todo
    /\ LET region == region_for_chunk(chunk_key).value
           items  == open_chunk(chunk_key).items
           last   == procs[chunk_key].todo = {c}
       IN  /\ IF is_total_slice(c, region)
              THEN procs[chunk_key].holding = -1
              ELSE procs[chunk_key].holding = c
           /\ target' = [target EXCEPT !.data =
                             [p \in 1..Len(target.data) |->
                                 IF p \notin zarr_chunk_positions(c) THEN target.data[p]
                                 ELSE IF region.start < p /\ p <= region.stop
                                 THEN items[p - region.start]
                                 ELSE procs[chunk_key].buf[p]]]
           /\ procs' = [procs EXCEPT ![chunk_key] =
                            [@ EXCEPT !.todo = @ \ {c},
                                      !.holding = -1,
                                      !.buf = <<>>,
                                      !.pc = IF last THEN "done" ELSE "write",
                                      !.status = IF last THEN "ok" ELSE @]]
    /\ UNCHANGED <<config, input_cache, ret, hist, log>>

NextStore ==
    \/ \E chunk_key \in Range(iter_chunks) : StoreChunkOpen(chunk_key)
    \/ \E chunk_key \in Range(iter_chunks) :
          \E c \in procs[chunk_key].todo : StoreChunkRead(chunk_key, c)
    \/ \E chunk_key \in Range(iter_chunks) :
          \E c \in procs[chunk_key].todo : StoreChunkWrite(chunk_key, c)

SpecStore == InitStore /\ [][NextStore]_vars

\* the target after store_chunk was called for each key of keys, one after another
RECURSIVE store_chunks_in_order(_, _)
store_chunks_in_order(t, keys) ==
    IF keys = <<>> THEN t
    ELSE store_chunks_in_order(store_chunk(t, Head(keys)).target, Tail(keys))

\* every order in which the keys of iter_chunks can be taken
orders_of_chunks ==
    {o \in [1..Len(iter_chunks) -> Range(iter_chunks)] :
        \A i, j \in 1..Len(iter_chunks) : i # j => o[i] # o[j]}

\* C19: store_chunk calls for distinct chunk keys need no lock: under every
\* interleaving of their steps, once all have returned the target holds what the
\* same calls leave when run one after another, in whatever order, and each call
\* ends as it does when run alone.
C19_ConcurrentStoreChunks ==
    (\A k \in Range(iter_chunks) : procs[k].pc \in {"done", "failed"}) =>
        /\ \A o \in orders_of_chunks :
              target = store_chunks_in_order(prepared_target, o)
        /\ \A k \in Range(iter_chunks) :
              procs[k].status = store_chunk(prepared_target, k).status

\* three files in two chunks: both writers have returned normally and the last
\* one had to read the stored chunk that its shorter region covers in part
C19_Witness ==
    /\ Len(file_urls) = 3 /\ files_per_chunk = 2 /\ nitems_per_file = 2
    /\ \A k \in Range(iter_chunks) : procs[k].pc = "done"
    /\ ~is_total_slice(1, region_for_chunk(1).value)
    /\ target.data = concat_all([i \in 1..Len(iter_chunks) |->
                                    expected_items(iter_chunks[i])])


\* ---------------------------------------------------------------------------
\* cache_input step by step, with readers opening inputs in between
\* ---------------------------------------------------------------------------

\* the first n bytes of a payload
prefix(bytes, n) == SubSeq(bytes, 1, n)

\* an input for which cache_input is not running
IdleCaching == [pc |-> "start", in_place |-> FALSE, written |-> 0]

InitCacheSteps ==
    /\ \E n \in 1..MaxFiles : file_urls = [i \in 1..n |-> i]
    /\ files_per_chunk = 1
    /\ nitems_per_file \in 1..MaxItemsPerFile
    /\ require_cache \in BOOLEAN
    /\ chunks_files = post_init(file_urls, files_per_chunk)
    /\ actual_nitems = nitems_per_file
    /\ input_cache = [f \in Range(file_urls) |-> NoEntry]
    /\ target = AbsentTarget
    /\ ret = NoCall
    /\ hist = NoHist
    /\ log = NoLog
    /\ procs = [f \in Range(file_urls) |-> IdleCaching]

\* cache_func enters both with-blocks: the source is open, and
\* input_cache.open(fname, mode="wb") has handed out a handle. A store that writes
\* in place (a local file) shows the truncated entry at once, one that uploads
\* on close shows nothing yet.
CacheInputOpen(fname, in_place) ==
    /\ procs[fname].pc = "start"
    /\ procs' = [procs EXCEPT ![fname] = [pc |-> "open", in_place |-> in_place,
                                          written |-> 0]]
    /\ input_cache' = IF in_place
                      THEN [input_cache EXCEPT ![fname] = [exists |-> TRUE, payload |-> <<>>]]
                      ELSE input_cache
    /\ UNCHANGED <<config, target, ret, hist, log>>

\* target.write(source.read()): n bytes reach the handle; fewer than all of them
\* when the write fails part-way
CacheInputWrite(fname, n) ==
    /\ procs[fname].pc = "open"
    /\ n \in 1..Len(fsspec_open(fname))
    /\ procs' = [procs EXCEPT ![fname] =
                     [@ EXCEPT !.pc = IF n = Len(fsspec_open(fname))
                                      THEN "written" ELSE "raising",
                               !.written = n]]
    /\ input_cache' = IF procs[fname].in_place
                      THEN [input_cache EXCEPT ![fname] =
                               [exists |-> TRUE, payload |-> prefix(fsspec_open(fname), n)]]
                      ELSE input_cache
    /\ UNCHANGED <<config, target, ret, hist, log>>

\* the with-blocks are left normally: the handle is closed and the entry complete
CacheInputClose(fname) ==
    /\ procs[fname].pc = "written"
    /\ procs' = [procs EXCEPT ![fname] = [@ EXCEPT !.pc = "done"]]
    /\ input_cache' = cache_func(input_cache, fname)
    /\ UNCHANGED <<config, target, ret, hist, log>>

\* source.read() or the write raised: the with-block of the cache handle is left
\* by the exception, which closes the handle and leaves what it holds as the entry
CacheInputAbort(fname) ==
    /\ procs[fname].pc \in {"open", "raising"}
    /\ procs' = [procs EXCEPT ![fname] = [@ EXCEPT !.pc = "aborted"]]
    /\ input_cache' = [input_cache EXCEPT ![fname] =
                          [exists  |-> TRUE,
                           payload |-> prefix(fsspec_open(fname), procs[fname].written)]]
    /\ UNCHANGED <<config, target, ret, hist, log>>

NextCacheSteps ==
    \/ \E fname \in Range(file_urls) : \E in_place \in BOOLEAN :
          CacheInputOpen(fname, in_place)
    \/ \E fname \in Range(file_urls) : \E n \in 1..(actual_nitems + 1) :
          CacheInputWrite(fname, n)
    \/ \E fname \in Range(file_urls) : CacheInputClose(fname)
    \/ \E fname \in Range(file_urls) : CacheInputAbort(fname)
    \/ \E fname \in Range(file_urls) : OpenInput(fname)

SpecCacheSteps == InitCacheSteps /\ [][NextCacheSteps]_vars

\* C20: cache entries are atomic per key: an open of input x that runs while
\* cache_input(x) is running, or after a cache_input(x) that aborted part-way,
\* never returns an empty or truncated payload; what it reads from the cache is
\* the whole payload of the source.
C20_CacheEntriesAtomic ==
    (ret.op = "input_opener" /\ ret.status = "ok" /\ ret.value.via = "cache")
        => ret.value.bytes = fsspec_open(ret.key)

====
